---- MODULE Spec2Model ----
(***************************************************************************)
(* Model of sanic/http/tls.py: hostname matching (match_hostname), the    *)
(* SNI certificate selector (CertSelector, find_cert and the SNI          *)
(* callbacks) and the local-development provisioner (get_ssl_context,     *)
(* _make_path and its shutdown cleanup).                                  *)
(*                                                                         *)
(* A Python str is a sequence of one-character strings; None is the       *)
(* value None.  An SSLContext is a record [id, has_sanic, names]: its     *)
(* identity, whether it carries a `sanic` attribute, and sanic["names"].  *)
(***************************************************************************)
EXTENDS Integers, Sequences, FiniteSets, TLC

VARIABLES
    \* match_hostname called on its own
    m_ctx, m_hostname, m_result, m_pc,
    \* CertSelector: the list given to __init__, the outcome of __init__,
    \* self.sanic_select, self.sanic_fallback
    ctxs, sel_state, sanic_select, sanic_fallback,
    \* find_cert called on its own: its argument and what it returned
    call_pc, call_server_name, call_result,
    \* one record per TLS handshake (sslobj) running selector_sni_callback
    hs,
    \* get_ssl_context: its inputs (ssl argument, app.state.mode, the two
    \* config values), the files on disk when it is called and now, whether
    \* the temp directory exists, its locals tmpdir, key_path and cert_path,
    \* how it ended, the output paths handed to the generator, the files
    \* cleanup has deleted, the number of cleanup runs and how the last ended
    ssl_arg, mode, LOCAL_TLS_KEY, LOCAL_TLS_CERT, fs_before, fs, tmp_exists,
    tmpdir, key_path, cert_path, tls_result, gen_outputs, deleted,
    cleanup_runs, cleanup_result

\* None where a str is expected, and an sslobj attribute that was never set
None == <<"None">>
Unset == <<"unset">>

\* None where an SSLContext is expected
NoneCtx == [id |-> 0, has_sanic |-> FALSE, names |-> << >>]

\* ------------------------------------------------------------------------
\* Bounds
\* ------------------------------------------------------------------------
MaxHostLen == 5
MaxNameLen == 3

\* ------------------------------------------------------------------------
\* Strings
\* ------------------------------------------------------------------------
Letters == {"a", "A", "."}

StrUpTo(n) == UNION {[1..k -> Letters] : k \in 0..n}

LowerChar(c) == IF c = "A" THEN "a" ELSE IF c = "B" THEN "b" ELSE c

\* str.lower()
Lower(s) == [i \in 1..Len(s) |-> LowerChar(s[i])]

\* str.startswith("*.")
StartsWithStarDot(s) == Len(s) >= 2 /\ s[1] = "*" /\ s[2] = "."

\* s[2:]
From2(s) == SubSeq(s, 3, Len(s))

HasDot(s) == \E i \in 1..Len(s) : s[i] = "."

FirstDot(s) == CHOOSE i \in 1..Len(s) : s[i] = "." /\ \A j \in 1..(i - 1) : s[j] # "."

\* s.split(".", 1)[-1]: the part after the first ".", or all of s when s has no "."
SplitLast(s) == IF HasDot(s) THEN SubSeq(s, FirstDot(s) + 1, Len(s)) ELSE s

\* ------------------------------------------------------------------------
\* match_hostname
\* ------------------------------------------------------------------------
\* dict(getattr(ctx, "sanic", {})).get("names", [])
NamesOf(ctx) == IF ctx.has_sanic THEN ctx.names ELSE << >>

\* one iteration of `for name in names`
NameMatches(name, hostname) ==
    IF StartsWithStarDot(name)
    THEN SplitLast(hostname) = From2(name)
    ELSE name = hostname

RECURSIVE MatchLoop(_, _, _)
MatchLoop(names, i, hostname) ==
    IF i > Len(names) THEN FALSE
    ELSE IF NameMatches(names[i], hostname) THEN TRUE
    ELSE MatchLoop(names, i + 1, hostname)

MatchHostname(ctx, hostname) == MatchLoop(NamesOf(ctx), 1, Lower(hostname))

\* ------------------------------------------------------------------------
\* Specification of match_hostname alone: any single served name against
\* any requested hostname.
\* ------------------------------------------------------------------------
\* find_cert hands match_hostname a non-empty server name only
Hostnames == StrUpTo(MaxHostLen) \ {<< >>}

PlainNames == StrUpTo(MaxNameLen) \ {<< >>}

WildcardNames == {<<"*", ".">> \o s : s \in StrUpTo(MaxNameLen)}

ServedNames == PlainNames \cup WildcardNames

MatchCtxs == {[id |-> 0, has_sanic |-> TRUE, names |-> <<n>>] : n \in ServedNames}

\* ------------------------------------------------------------------------
\* CertSelector.__init__
\* ------------------------------------------------------------------------
\* `if not ctx`: an SSLContext object is always true, None is false
Truthy(ctx) == ctx # NoneCtx

\* the body of `for i, ctx in enumerate(ctxs)`; k is the 1-based position,
\* so enumerate's index is k - 1
RECURSIVE InitLoop(_, _, _)
InitLoop(cs, k, acc) ==
    IF k > Len(cs) THEN acc
    ELSE IF ~Truthy(cs[k]) THEN InitLoop(cs, k + 1, acc)
    ELSE InitLoop(cs, k + 1,
            [all_names |-> acc.all_names \o NamesOf(cs[k]),
             select    |-> Append(acc.select, cs[k]),
             fallback  |-> IF k - 1 = 0 THEN cs[k] ELSE acc.fallback])

\* mutant: the first surviving element becomes the fallback
SelectorFieldsFirstSurvivor(cs) ==
    LET f == InitLoop(cs, 1, [all_names |-> << >>, select |-> << >>, fallback |-> NoneCtx])
    IN [f EXCEPT !.fallback = IF f.select = << >> THEN NoneCtx ELSE f.select[1]]

SelectorFields(cs) ==
    InitLoop(cs, 1, [all_names |-> << >>, select |-> << >>, fallback |-> NoneCtx])

\* mutant: all_names = names instead of all_names += names
InitRaisesLastOnly(cs) ==
    LET sel == SelectorFields(cs).select
    IN sel = << >> \/ NamesOf(sel[Len(sel)]) = << >>

\* `if not all_names: raise ValueError`
InitRaises(cs) == SelectorFields(cs).all_names = << >>

\* ------------------------------------------------------------------------
\* find_cert
\* ------------------------------------------------------------------------
\* `not server_name`: None or the empty string
NoServerName(server_name) == server_name = None \/ server_name = << >>

Found(ctx) == [ok |-> TRUE, ctx |-> ctx]
RaisedValueError == [ok |-> FALSE, ctx |-> NoneCtx]

RECURSIVE FindLoop(_, _, _)
FindLoop(select, i, server_name) ==
    IF i > Len(select) THEN NoneCtx
    ELSE IF MatchHostname(select[i], server_name) THEN select[i]
    ELSE FindLoop(select, i + 1, server_name)

\* mutant: an unmatched SNI is rejected without trying the fallback
FindCertNoFallbackOnMiss(select, fallback, server_name) ==
    IF NoServerName(server_name)
    THEN IF Truthy(fallback) THEN Found(fallback) ELSE RaisedValueError
    ELSE LET ctx == FindLoop(select, 1, server_name) IN
         IF ctx # NoneCtx THEN Found(ctx) ELSE RaisedValueError

FindCert(select, fallback, server_name) ==
    IF NoServerName(server_name)
    THEN IF Truthy(fallback) THEN Found(fallback) ELSE RaisedValueError
    ELSE LET ctx == FindLoop(select, 1, server_name) IN
         IF ctx # NoneCtx THEN Found(ctx)
         ELSE IF Truthy(fallback) THEN Found(fallback)
         ELSE RaisedValueError

\* ------------------------------------------------------------------------
\* selector_sni_callback, one step per statement, for each handshake
\* ------------------------------------------------------------------------
\* the CertSelector itself: the context every handshake starts with
SelectorCtx == [id |-> 9, has_sanic |-> FALSE, names |-> << >>]

NewHandshake ==
    [pc |-> "idle", server_name |-> Unset, sanic_server_name |-> Unset,
     name_writes |-> 0, context |-> SelectorCtx, ctx_writes |-> 0,
     found |-> RaisedValueError, ret |-> "pending"]

\* the TLS layer calls ctx.sni_callback(sslobj, server_name, ctx)
ClientHello(h, sni) ==
    /\ sel_state = "built"
    /\ hs[h].pc = "idle"
    /\ hs' = [hs EXCEPT ![h].pc = "called", ![h].server_name = sni]
    /\ UNCHANGED <<ctxs, sel_state, sanic_select, sanic_fallback>>

\* mutant: the SNI is stored only when the client sent one
ServerNameCallbackSkipsEmpty(h) ==
    /\ hs[h].pc = "called"
    /\ hs' = IF NoServerName(hs[h].server_name)
             THEN [hs EXCEPT ![h].pc = "stored"]
             ELSE [hs EXCEPT ![h].pc = "stored",
                             ![h].sanic_server_name = hs[h].server_name,
                             ![h].name_writes = hs[h].name_writes + 1]
    /\ UNCHANGED <<ctxs, sel_state, sanic_select, sanic_fallback>>

\* server_name_callback: sslobj.sanic_server_name = server_name
ServerNameCallback(h) ==
    /\ hs[h].pc = "called"
    /\ hs' = [hs EXCEPT ![h].pc = "stored",
                        ![h].sanic_server_name = hs[h].server_name,
                        ![h].name_writes = hs[h].name_writes + 1]
    /\ UNCHANGED <<ctxs, sel_state, sanic_select, sanic_fallback>>

\* mutant: find_cert moves the context it found to the front of sanic_select
LookUpMoveToFront(h) ==
    /\ hs[h].pc = "stored"
    /\ LET r == FindCert(sanic_select, sanic_fallback, hs[h].server_name) IN
       /\ hs' = [hs EXCEPT ![h].pc = "looked_up", ![h].found = r]
       /\ sanic_select' =
             IF r.ok
             THEN <<r.ctx>> \o SelectSeq(sanic_select, LAMBDA c : c # r.ctx)
             ELSE sanic_select
    /\ UNCHANGED <<ctxs, sel_state, sanic_fallback>>

\* find_cert(ctx, server_name), inside the try
LookUp(h) ==
    /\ hs[h].pc = "stored"
    /\ hs' = [hs EXCEPT ![h].pc = "looked_up",
                        ![h].found = FindCert(sanic_select, sanic_fallback,
                                              hs[h].server_name)]
    /\ UNCHANGED <<ctxs, sel_state, sanic_select, sanic_fallback>>

\* sslobj.context = <the context found>; return None
SetContext(h) ==
    /\ hs[h].pc = "looked_up"
    /\ hs[h].found.ok
    /\ hs' = [hs EXCEPT ![h].pc = "done",
                        ![h].context = hs[h].found.ctx,
                        ![h].ctx_writes = hs[h].ctx_writes + 1,
                        ![h].ret = "None"]
    /\ UNCHANGED <<ctxs, sel_state, sanic_select, sanic_fallback>>

\* mutant: the except branch falls through to `return None`
RejectConnectionReturnsNone(h) ==
    /\ hs[h].pc = "looked_up"
    /\ ~hs[h].found.ok
    /\ hs' = [hs EXCEPT ![h].pc = "done", ![h].ret = "None"]
    /\ UNCHANGED <<ctxs, sel_state, sanic_select, sanic_fallback>>

\* except ValueError: return ssl.ALERT_DESCRIPTION_UNRECOGNIZED_NAME
RejectConnection(h) ==
    /\ hs[h].pc = "looked_up"
    /\ ~hs[h].found.ok
    /\ hs' = [hs EXCEPT ![h].pc = "done",
                        ![h].ret = "ALERT_DESCRIPTION_UNRECOGNIZED_NAME"]
    /\ UNCHANGED <<ctxs, sel_state, sanic_select, sanic_fallback>>

\* ------------------------------------------------------------------------
\* The selector: CertSelector(ctxs), then find_cert called on it
\* ------------------------------------------------------------------------
MaxCtxs == 2

Str3(a, b, c) == <<a, b, c>>

\* certificates: A serves a.c, B serves b.c, W serves *.c and w.d,
\* E is a CertSimple with names=[], P a pre-built SSLContext without `sanic`
CtxA == [id |-> 1, has_sanic |-> TRUE, names |-> <<Str3("a", ".", "c")>>]
CtxB == [id |-> 2, has_sanic |-> TRUE, names |-> <<Str3("b", ".", "c")>>]
CtxW == [id |-> 3, has_sanic |-> TRUE,
         names |-> <<Str3("*", ".", "c"), Str3("w", ".", "d")>>]
CtxE == [id |-> 4, has_sanic |-> TRUE, names |-> << >>]
CtxP == [id |-> 5, has_sanic |-> FALSE, names |-> << >>]

CtxPool == {CtxA, CtxB, CtxW, CtxE, CtxP}

CtxLists == UNION {[1..k -> CtxPool \cup {NoneCtx}] : k \in 0..MaxCtxs}

\* SNI values a client may send: none, empty, a.c, b.c, A.c, z.z, w.d
ServerNames ==
    {None, << >>, Str3("a", ".", "c"), Str3("b", ".", "c"), Str3("A", ".", "c"),
     Str3("z", ".", "z"), Str3("w", ".", "d")}

selvars == <<ctxs, sel_state, sanic_select, sanic_fallback>>
callvars == <<call_pc, call_server_name, call_result>>

\* CertSelector(ctxs): __init__ either returns or raises ValueError
CertSelectorInit(cs) ==
    /\ sel_state = "new"
    /\ ctxs' = cs
    /\ sanic_select' = SelectorFields(cs).select
    /\ sanic_fallback' = SelectorFields(cs).fallback
    /\ sel_state' = IF InitRaises(cs) THEN "raised" ELSE "built"

\* find_cert(selector, server_name), returning or raising ValueError
CallFindCert(server_name) ==
    /\ sel_state = "built"
    /\ call_pc' = "returned"
    /\ call_server_name' = server_name
    /\ call_result' = FindCert(sanic_select, sanic_fallback, server_name)
    /\ UNCHANGED selvars

SelectorNew ==
    /\ ctxs = << >>
    /\ sel_state = "new"
    /\ sanic_select = << >>
    /\ sanic_fallback = NoneCtx

CallIdle ==
    /\ call_pc = "none"
    /\ call_server_name = None
    /\ call_result = RaisedValueError

\* ------------------------------------------------------------------------
\* Concurrent handshakes against one selector
\* ------------------------------------------------------------------------
NumHandshakes == 2

Handshakes == 1..NumHandshakes

\* the lists the handshake specification builds its selector from
HsCtxLists == [1..2 -> {NoneCtx, CtxA, CtxB}]

HsServerNames ==
    {None, Str3("a", ".", "c"), Str3("b", ".", "c"), Str3("A", ".", "c"),
     Str3("z", ".", "z")}

HsInit == hs = [h \in Handshakes |-> NewHandshake]

\* ------------------------------------------------------------------------
\* _make_path, get_ssl_context and the cleanup it registers
\* ------------------------------------------------------------------------
\* a path is [dir, name]: a file name inside the working directory ("cwd")
\* or inside the directory mkdtemp() made ("tmp")
InCwd(name) == [dir |-> "cwd", name |-> name]
InTmp(name) == [dir |-> "tmp", name |-> name]
NoPath == [dir |-> "none", name |-> "none"]

DEFAULT_LOCAL_TLS_KEY == "key.pem"
DEFAULT_LOCAL_TLS_CERT == "cert.pem"

\* a config value: Default(), a str or a Path
DefaultValue == [kind |-> "Default", name |-> "none"]
StrValue(name) == [kind |-> "str", name |-> name]
PathValue(name) == [kind |-> "Path", name |-> name]

KeyValues == {DefaultValue, StrValue("mykey.pem"), PathValue("mykey.pem")}
CertValues == {DefaultValue, StrValue("mycert.pem"), PathValue("mycert.pem")}

CwdFiles ==
    {InCwd(DEFAULT_LOCAL_TLS_KEY), InCwd(DEFAULT_LOCAL_TLS_CERT),
     InCwd("mykey.pem"), InCwd("mycert.pem")}

\* _make_path(maybe_path, tmpdir) on the files `files`; has_tmpdir is
\* `tmpdir` being set
MakePathRaises(maybe_path, has_tmpdir, files) ==
    /\ maybe_path.kind = "str"
    /\ InCwd(maybe_path.name) \notin files
    /\ ~has_tmpdir

MakePath(maybe_path, has_tmpdir, files) ==
    IF maybe_path.kind = "Path" THEN InCwd(maybe_path.name)
    ELSE IF InCwd(maybe_path.name) \notin files THEN InTmp(maybe_path.name)
    ELSE InCwd(maybe_path.name)

\* key = DEFAULT_LOCAL_TLS_KEY if isinstance(..., Default) else ...
KeyOrDefault(v) == IF v.kind = "Default" THEN StrValue(DEFAULT_LOCAL_TLS_KEY) ELSE v
CertOrDefault(v) == IF v.kind = "Default" THEN StrValue(DEFAULT_LOCAL_TLS_CERT) ELSE v

tlsvars == <<ssl_arg, mode, LOCAL_TLS_KEY, LOCAL_TLS_CERT, fs_before, fs,
             tmp_exists, tmpdir, key_path, cert_path, tls_result, gen_outputs,
             deleted, cleanup_runs, cleanup_result>>

TlsIdle ==
    /\ ssl_arg = FALSE
    /\ mode = "DEBUG"
    /\ LOCAL_TLS_KEY = DefaultValue
    /\ LOCAL_TLS_CERT = DefaultValue
    /\ fs_before = {}
    /\ fs = {}
    /\ tmp_exists = FALSE
    /\ tmpdir = FALSE
    /\ key_path = NoPath
    /\ cert_path = NoPath
    /\ tls_result = "not_called"
    /\ gen_outputs = {}
    /\ deleted = {}
    /\ cleanup_runs = 0
    /\ cleanup_result = "not_run"

TlsInit ==
    /\ ssl_arg \in BOOLEAN
    /\ mode \in {"PRODUCTION", "DEBUG"}
    /\ LOCAL_TLS_KEY \in KeyValues
    /\ LOCAL_TLS_CERT \in CertValues
    /\ fs \in SUBSET CwdFiles
    /\ fs_before = fs
    /\ tmp_exists = FALSE
    /\ tmpdir = FALSE
    /\ key_path = NoPath
    /\ cert_path = NoPath
    /\ tls_result = "not_called"
    /\ gen_outputs = {}
    /\ deleted = {}
    /\ cleanup_runs = 0
    /\ cleanup_result = "not_run"

TlsUnchangedInputs == UNCHANGED <<ssl_arg, mode, LOCAL_TLS_KEY, LOCAL_TLS_CERT, fs_before>>

\* `if ssl: return ssl` and the PRODUCTION check: nothing is provisioned
GetSslContextEarly ==
    /\ tls_result = "not_called"
    /\ ssl_arg \/ mode = "PRODUCTION"
    /\ tls_result' = IF ssl_arg THEN "returned_ssl" ELSE "SanicException"
    /\ UNCHANGED <<fs, tmp_exists, tmpdir, key_path, cert_path, gen_outputs,
                   deleted, cleanup_runs, cleanup_result>>
    /\ TlsUnchangedInputs

\* the try/finally of get_ssl_context; generated tells whether mkcert, when
\* it is run, succeeds
GetSslContext(generated) ==
    /\ tls_result = "not_called"
    /\ ~ssl_arg /\ mode # "PRODUCTION"
    /\ LET has_tmpdir == LOCAL_TLS_KEY.kind = "Default" \/ LOCAL_TLS_CERT.kind = "Default"
           key == KeyOrDefault(LOCAL_TLS_KEY)
           cert == CertOrDefault(LOCAL_TLS_CERT)
           kp == MakePath(key, has_tmpdir, fs)
           cp == MakePath(cert, has_tmpdir, fs)
       IN /\ tmpdir' = has_tmpdir
          /\ tmp_exists' = has_tmpdir
          /\ IF MakePathRaises(key, has_tmpdir, fs)
             THEN /\ tls_result' = "RuntimeError"
                  /\ UNCHANGED <<key_path, cert_path, fs, gen_outputs>>
             ELSE IF MakePathRaises(cert, has_tmpdir, fs)
             THEN /\ tls_result' = "RuntimeError"
                  /\ key_path' = kp
                  /\ UNCHANGED <<cert_path, fs, gen_outputs>>
             ELSE /\ key_path' = kp
                  /\ cert_path' = cp
                  /\ IF cp \in fs
                     THEN /\ tls_result' = "CertSimple"
                          /\ UNCHANGED <<fs, gen_outputs>>
                     ELSE /\ gen_outputs' = {kp, cp}
                          /\ IF generated
                             THEN /\ fs' = fs \cup {kp, cp}
                                  /\ tls_result' = "CertSimple"
                             ELSE /\ fs' = fs
                                  /\ tls_result' = "GenerateFailed"
    /\ UNCHANGED <<deleted, cleanup_runs, cleanup_result>>
    /\ TlsUnchangedInputs

MaxCleanupRuns == 2

\* with suppress(FileNotFoundError): key_path.unlink(); cert_path.unlink()
AfterUnlinks(files) ==
    IF key_path \in files THEN (files \ {key_path}) \ {cert_path} ELSE files

\* tmpdir.rmdir() on the files `files`
RmdirResult(files) ==
    IF ~tmp_exists THEN "FileNotFoundError"
    ELSE IF \E f \in files : f.dir = "tmp" THEN "OSError"
    ELSE "ok"

\* the cleanup registered with app.main_process_stop
Cleanup ==
    /\ tls_result \in {"RuntimeError", "GenerateFailed", "CertSimple"}
    /\ cleanup_runs < MaxCleanupRuns
    /\ cleanup_runs' = cleanup_runs + 1
    /\ IF tmpdir
       THEN /\ fs' = AfterUnlinks(fs)
            /\ deleted' = deleted \cup (fs \ AfterUnlinks(fs))
            /\ cleanup_result' = RmdirResult(AfterUnlinks(fs))
            /\ tmp_exists' = (tmp_exists /\ RmdirResult(AfterUnlinks(fs)) # "ok")
       ELSE /\ cleanup_result' = "ok"
            /\ UNCHANGED <<fs, deleted, tmp_exists>>
    /\ UNCHANGED <<tmpdir, key_path, cert_path, tls_result, gen_outputs>>
    /\ TlsUnchangedInputs

\* somebody else removes the key or the certificate file
RemoveFile(f) ==
    /\ tls_result \in {"GenerateFailed", "CertSimple"}
    /\ f \in fs
    /\ fs' = fs \ {f}
    /\ UNCHANGED <<tmp_exists, tmpdir, key_path, cert_path, tls_result,
                   gen_outputs, deleted, cleanup_runs, cleanup_result>>
    /\ TlsUnchangedInputs

\* somebody else removes the temp directory and what is in it
RemoveTmpdir ==
    /\ tmp_exists
    /\ tmp_exists' = FALSE
    /\ fs' = {f \in fs : f.dir # "tmp"}
    /\ UNCHANGED <<tmpdir, key_path, cert_path, tls_result,
                   gen_outputs, deleted, cleanup_runs, cleanup_result>>
    /\ TlsUnchangedInputs

\* ------------------------------------------------------------------------
\* Specifications
\* ------------------------------------------------------------------------
mvars == <<m_ctx, m_hostname, m_result, m_pc>>

vars == <<m_ctx, m_hostname, m_result, m_pc,
          ctxs, sel_state, sanic_select, sanic_fallback,
          call_pc, call_server_name, call_result, hs,
          ssl_arg, mode, LOCAL_TLS_KEY, LOCAL_TLS_CERT, fs_before, fs,
          tmp_exists, tmpdir, key_path, cert_path, tls_result, gen_outputs,
          deleted, cleanup_runs, cleanup_result>>

MatchIdle ==
    /\ m_ctx = NoneCtx
    /\ m_hostname = << >>
    /\ m_result = FALSE
    /\ m_pc = "off"

MatchInit ==
    /\ m_ctx \in MatchCtxs
    /\ m_hostname \in Hostnames
    /\ m_result = FALSE
    /\ m_pc = "call"

CallMatchHostname ==
    /\ m_pc = "call"
    /\ m_result' = MatchHostname(m_ctx, m_hostname)
    /\ m_pc' = "done"
    /\ UNCHANGED <<m_ctx, m_hostname>>

\* match_hostname on any served name and hostname
MatchSpecInit == MatchInit /\ SelectorNew /\ CallIdle /\ HsInit /\ TlsIdle

MatchSpecNext == CallMatchHostname /\ UNCHANGED <<selvars, callvars, hs, tlsvars>>

SpecMatch == MatchSpecInit /\ [][MatchSpecNext]_vars

\* a selector built from any list, then find_cert called on it
SelSpecInit == MatchIdle /\ SelectorNew /\ CallIdle /\ HsInit /\ TlsIdle

SelSpecNext ==
    \/ \E cs \in CtxLists :
          CertSelectorInit(cs) /\ UNCHANGED <<mvars, callvars, hs, tlsvars>>
    \/ \E server_name \in ServerNames :
          CallFindCert(server_name) /\ UNCHANGED <<mvars, hs, tlsvars>>

SpecSel == SelSpecInit /\ [][SelSpecNext]_vars

\* concurrent handshakes against one selector
HsSpecInit == MatchIdle /\ SelectorNew /\ CallIdle /\ HsInit /\ TlsIdle

HsSpecNext ==
    \/ \E cs \in HsCtxLists :
          CertSelectorInit(cs) /\ UNCHANGED <<mvars, callvars, hs, tlsvars>>
    \/ \E h \in Handshakes, sni \in HsServerNames :
          ClientHello(h, sni) /\ UNCHANGED <<mvars, callvars, tlsvars>>
    \/ \E h \in Handshakes :
          ServerNameCallback(h) /\ UNCHANGED <<mvars, callvars, tlsvars>>
    \/ \E h \in Handshakes : LookUp(h) /\ UNCHANGED <<mvars, callvars, tlsvars>>
    \/ \E h \in Handshakes : SetContext(h) /\ UNCHANGED <<mvars, callvars, tlsvars>>
    \/ \E h \in Handshakes :
          RejectConnection(h) /\ UNCHANGED <<mvars, callvars, tlsvars>>

SpecHs == HsSpecInit /\ [][HsSpecNext]_vars

\* get_ssl_context, then files removed by others and cleanup runs
TlsSpecInit == MatchIdle /\ SelectorNew /\ CallIdle /\ HsInit /\ TlsInit

TlsSpecNext ==
    \/ GetSslContextEarly /\ UNCHANGED <<mvars, selvars, callvars, hs>>
    \/ \E generated \in BOOLEAN :
          GetSslContext(generated) /\ UNCHANGED <<mvars, selvars, callvars, hs>>
    \/ Cleanup /\ UNCHANGED <<mvars, selvars, callvars, hs>>
    \/ \E f \in {key_path, cert_path} :
          RemoveFile(f) /\ UNCHANGED <<mvars, selvars, callvars, hs>>
    \/ RemoveTmpdir /\ UNCHANGED <<mvars, selvars, callvars, hs>>

SpecTls == TlsSpecInit /\ [][TlsSpecNext]_vars

\* ------------------------------------------------------------------------
\* Properties
\* ------------------------------------------------------------------------
NameAC == Str3("a", ".", "c")
NameBC == Str3("b", ".", "c")
NameZZ == Str3("z", ".", "z")

Absent(sni) == sni = None \/ sni = << >>

IsCtx(c) == c # NoneCtx

\* positions of the entries whose served names match the SNI
MatchingEntries(select, sni) ==
    {i \in 1..Len(select) : MatchHostname(select[i], sni)}

FirstOf(S) == CHOOSE i \in S : \A j \in S : i <= j

\* C1: find_cert returns the fallback for an absent or empty SNI when a
\* fallback is set, else the first entry in registration order whose names
\* match, else the fallback when set, and raises exactly when the SNI is
\* absent or unmatched and there is no fallback; for [A(a.c), B(b.c)] it
\* gives A for a.c, B for b.c, A for z.z and A for no SNI.
C1_FindCertContract ==
    call_pc = "returned" =>
        LET sni == call_server_name
            m == IF Absent(sni) THEN {} ELSE MatchingEntries(sanic_select, sni)
        IN /\ (Absent(sni) /\ IsCtx(sanic_fallback)) => call_result = Found(sanic_fallback)
           /\ (~Absent(sni) /\ m # {}) => call_result = Found(sanic_select[FirstOf(m)])
           /\ (~Absent(sni) /\ m = {} /\ IsCtx(sanic_fallback))
                 => call_result = Found(sanic_fallback)
           /\ ~call_result.ok <=> ((Absent(sni) \/ m = {}) /\ ~IsCtx(sanic_fallback))
           /\ ctxs = <<CtxA, CtxB>> =>
                 /\ sni = NameAC => call_result = Found(CtxA)
                 /\ sni = NameBC => call_result = Found(CtxB)
                 /\ sni = NameZZ => call_result = Found(CtxA)
                 /\ sni = None => call_result = Found(CtxA)

\* C1 witness: on [A, B] an unmatched SNI was looked up and A, the fallback, came back
C1_Witness ==
    /\ call_pc = "returned"
    /\ ctxs = <<CtxA, CtxB>>
    /\ call_server_name = NameZZ
    /\ call_result = Found(CtxA)

\* C2: a served name *.<suffix> matches a hostname iff the hostname has a
\* "." and what follows its first "." equals <suffix>; in particular a
\* wildcard never matches a hostname without ".".  Stated for served names
\* stored in lower case, the hostname compared in lower case.
C2_WildcardIffDotAndSuffix ==
    (m_pc = "done" /\ StartsWithStarDot(m_ctx.names[1])
                   /\ m_ctx.names[1] = Lower(m_ctx.names[1])) =>
        LET h == Lower(m_hostname) IN
        m_result <=> (HasDot(h) /\ SubSeq(h, FirstDot(h) + 1, Len(h)) = From2(m_ctx.names[1]))

\* C3: a served name equal to the requested hostname up to letter case
\* matches, whatever the case the served name is stored in.
C3_CaseInsensitiveBothSides ==
    (m_pc = "done" /\ Lower(m_ctx.names[1]) = Lower(m_hostname)) => m_result

\* C4: a built selector's entries are the non-absent elements of the list in
\* their order, its fallback is the element at index 0 of the list when that
\* is not absent and is absent otherwise, and a set fallback is the first
\* entry.
C4_EntriesAndFallback ==
    sel_state = "built" =>
        /\ sanic_select = SelectSeq(ctxs, IsCtx)
        /\ sanic_fallback = IF Len(ctxs) > 0 /\ IsCtx(ctxs[1]) THEN ctxs[1] ELSE NoneCtx
        /\ IsCtx(sanic_fallback) => sanic_fallback = sanic_select[1]

\* C4 witness: the list began with None, a later element survived and was
\* not promoted to fallback
C4_Witness ==
    /\ sel_state = "built"
    /\ Len(ctxs) > 1
    /\ ~IsCtx(ctxs[1])
    /\ Len(sanic_select) > 0
    /\ ~IsCtx(sanic_fallback)

\* C5 as claimed: every entry of a built selector has served names.
C5_EveryEntryHasNames ==
    sel_state = "built" =>
        \A i \in 1..Len(sanic_select) : NamesOf(sanic_select[i]) # << >>

\* C5 as amended: construction fails exactly when no surviving element of
\* the list has any served name; a built selector has at least one entry
\* with served names.
C5_SomeEntryHasNames ==
    /\ sel_state = "built" =>
          \E i \in 1..Len(sanic_select) : NamesOf(sanic_select[i]) # << >>
    /\ sel_state = "raised" =>
          \A i \in 1..Len(ctxs) : IsCtx(ctxs[i]) => NamesOf(ctxs[i]) = << >>

\* C5 witness: a selector was built although one of its entries has no names
C5_Witness ==
    /\ sel_state = "built"
    /\ \E i \in 1..Len(sanic_select) : NamesOf(sanic_select[i]) = << >>

\* C6: cleanup tolerates files already removed and a second run: whenever it
\* has run after the key and the certificate were generated in the temp
\* directory, it ended without raising and key file, certificate file and
\* temp directory are gone.
C6_CleanupIdempotent ==
    (/\ cleanup_runs > 0
     /\ tmpdir
     /\ tls_result = "CertSimple"
     /\ key_path.dir = "tmp"
     /\ cert_path.dir = "tmp") =>
        /\ cleanup_result = "ok"
        /\ key_path \notin fs
        /\ cert_path \notin fs
        /\ ~tmp_exists

\* C7: no step of a handshake changes sanic_select or sanic_fallback; every
\* handshake, however interleaved with the others, gets what find_cert gives
\* for its SNI on the selector as built, and two handshakes with the same
\* SNI get the same answer.
C7_SelectReadOnly ==
    /\ [][hs' # hs => (sanic_select' = sanic_select /\ sanic_fallback' = sanic_fallback)]_vars
    /\ [](\A h \in Handshakes :
            hs[h].pc \in {"looked_up", "done"} =>
                /\ hs[h].found = FindCert(SelectSeq(ctxs, IsCtx),
                                          IF IsCtx(ctxs[1]) THEN ctxs[1] ELSE NoneCtx,
                                          hs[h].server_name)
                /\ \A g \in Handshakes :
                      (hs[g].pc \in {"looked_up", "done"}
                          /\ hs[g].server_name = hs[h].server_name)
                      => hs[g].found = hs[h].found)

\* C7 witness: two handshakes are inside the callback at once, both past
\* find_cert, one matched and one rejected
C7_Witness ==
    /\ hs[1].pc = "looked_up" /\ hs[2].pc = "looked_up"
    /\ hs[1].found = Found(CtxA)
    /\ ~hs[2].found.ok

\* C8: the SNI received is on the handshake object from before the lookup
\* starts, on every path, written exactly once and never changed after.
C8_SniRecordedFirst ==
    \A h \in Handshakes :
        /\ hs[h].pc \in {"idle", "called"} =>
              hs[h].sanic_server_name = Unset /\ hs[h].name_writes = 0
        /\ hs[h].pc \in {"stored", "looked_up", "done"} =>
              hs[h].sanic_server_name = hs[h].server_name /\ hs[h].name_writes = 1

\* C8 witness: one handshake has its absent SNI recorded and has not looked
\* up yet, another was rejected and still carries its SNI
C8_Witness ==
    /\ hs[1].pc = "stored" /\ hs[1].sanic_server_name = None
    /\ hs[2].pc = "done" /\ hs[2].ret = "ALERT_DESCRIPTION_UNRECOGNIZED_NAME"
    /\ hs[2].sanic_server_name = NameZZ

\* C9: a failed lookup returns the unrecognized-name alert and leaves the
\* handshake's context as it was; a successful one sets the context to the
\* context found, once, and returns None; a step of one handshake changes no
\* other handshake.
C9_FailureIsLocal ==
    /\ [](\A h \in Handshakes :
            /\ hs[h].pc # "done" =>
                  /\ hs[h].context = SelectorCtx
                  /\ hs[h].ctx_writes = 0
                  /\ hs[h].ret = "pending"
            /\ (hs[h].pc = "done" /\ ~hs[h].found.ok) =>
                  /\ hs[h].ret = "ALERT_DESCRIPTION_UNRECOGNIZED_NAME"
                  /\ hs[h].context = SelectorCtx
                  /\ hs[h].ctx_writes = 0
            /\ (hs[h].pc = "done" /\ hs[h].found.ok) =>
                  /\ hs[h].ret = "None"
                  /\ hs[h].context = hs[h].found.ctx
                  /\ hs[h].ctx_writes = 1)
    /\ [][\A h, g \in Handshakes : (h # g /\ hs'[h] # hs[h]) => hs'[g] = hs[g]]_vars

\* C9 witness: one handshake was rejected, another got certificate A
C9_Witness ==
    /\ hs[1].pc = "done" /\ hs[1].ret = "ALERT_DESCRIPTION_UNRECOGNIZED_NAME"
    /\ hs[1].context = SelectorCtx
    /\ hs[2].pc = "done" /\ hs[2].ret = "None" /\ hs[2].context = CtxA

\* C10: a file that was on disk before get_ssl_context was called is neither
\* handed to the generator as an output path nor deleted by cleanup.
C10_UserFilesUntouched ==
    /\ gen_outputs \cap fs_before = {}
    /\ deleted \cap fs_before = {}

====
